---- MODULE Spec2Model ----
(***************************************************************************)
(* Real-time presence and SOS session coordinator of Raahi (app.py).       *)
(*                                                                         *)
(* The Socket.IO handlers of app.py mutate four module-level dicts:        *)
(* ONLINE_USERS, USER_LOCATIONS, ACTIVE_SOS_ROOMS and SOS_RECORDS.  A      *)
(* handler runs without interruption between its suspension points; the    *)
(* sos_alert handler has two of them: the blocking network call of the     *)
(* emergency mail (send_emergency_email_to_relative) and the cooperative   *)
(* socketio.sleep(30) that precedes the auto-resolve.  Every other handler *)
(* is one atomic step.                                                     *)
(***************************************************************************)
EXTENDS Integers, Sequences, FiniteSets, TLC

\* ------------------------------------------------------------------ bounds

\* How many sos_alert events of registered users are handled in one behaviour.
MaxTriggers == 2
\* Longest location_log a location_update still appends to.
MaxLog == 2
\* How many location_update events change the tracker in one behaviour.
MaxUpdates == 2
\* The capacity of the event buffer (MAX_EVENTS, 10000 in path_pipeline.py),
\* and how many events add_tourist_event is given.
MAX_EVENTS == 2
MaxAdds == 4

\* -------------------------------------------------------- program constants

\* socketio.sleep(30)
AUTO_RESOLVE_DELAY == 30
\* sid[:4] in the sos_id
SOS_SID_CHARS == 4
\* sid[:6] in the anonymous user id
ANON_SID_CHARS == 6

\* The values int(time.time()) takes while events are handled, counted from
\* the start: two neighbouring seconds, and the same two one delay later.
Instants == { 0, 1, AUTO_RESOLVE_DELAY, AUTO_RESOLVE_DELAY + 1 }
Horizon == CHOOSE t \in Instants : \A u \in Instants : u <= t

\* ---------------------------------------------------------- Python values

\* A Python value is None, a number or a string.
PyNone == [none |-> TRUE]
Num(v) == [num |-> v]
Str(v) == [str |-> v]

\* float(v) / int(v) succeed on numbers and raise on anything else the
\* clients of this model send.
IsNumeric(v) == DOMAIN v = {"num"}

\* f"{prefix}{arg}": a formatted, non-empty string.
Fmt(prefix, arg) == [fmt |-> prefix, arg |-> arg]

\* bool(v) of a Python value.
Truthy(v) ==
    CASE DOMAIN v = {"none"} -> FALSE
      [] DOMAIN v = {"num"}  -> v.num # 0
      [] DOMAIN v = {"str"}  -> v.str # ""
      [] OTHER               -> TRUE

\* x or y
Or(x, y) == IF Truthy(x) THEN x ELSE y

\* ------------------------------------------------------------ dict helpers

\* d.get(k), d.get(k, default), d[k] = v, d.pop(k, None), {}
DictGet(d, k) == IF k \in DOMAIN d THEN d[k] ELSE PyNone
DictGetD(d, k, default) == IF k \in DOMAIN d THEN d[k] ELSE default
DictSet(d, k, v) == [x \in DOMAIN d \cup {k} |-> IF x = k THEN v ELSE d[x]]
DictPop(d, k) == [x \in DOMAIN d \ {k} |-> d[x]]
EmptyDict == [x \in {} |-> PyNone]

\* s[:n]
Slice(s, n) == IF Len(s) <= n THEN s ELSE SubSeq(s, 1, n)

\* ------------------------------------------------------------------ inputs

\* request.sid of the connections: two share their first four characters.
SIDS == { <<"a","b","c","d","1">>, <<"a","b","c","d","2">> }

\* data.get("user") or {} of a join event.
JoinUsers ==
    { [id |-> Str("u1"), name |-> Str("Asha"), email |-> Str("asha@example.org")] }

\* data of a location_update event.
LocationPayloads ==
    { [lat |-> Num(1), lng |-> Num(7)],
      [lat |-> Num(2), lng |-> Num(7), ts |-> Num(5), accuracy |-> Num(3)],
      EmptyDict,
      [lat |-> Str("north"), lng |-> Num(7)],
      [lat |-> Num(1), lng |-> Num(7), accuracy |-> Str("high")],
      [lat |-> Num(1), lng |-> Num(7), ts |-> Str("")] }

\* data of a sos_alert event.
AlertPayloads ==
    { EmptyDict,
      [lat |-> Num(1), lng |-> Num(7)] }

\* ------------------------------------------------------------------- state

VARIABLES
    now,               \* int(time.time())
    connected,         \* the sids whose transport connection is open
    ONLINE_USERS,      \* sid -> {id, name, email}
    USER_LOCATIONS,    \* sid -> {lat, lng, ts, accuracy}
    ACTIVE_SOS_ROOMS,  \* sid -> sos_id
    SOS_RECORDS,       \* sos_id -> record
    rooms,             \* Socket.IO room membership: set of <<room, sid>>
    tasks,             \* the sos_alert handler invocations, in arrival order
    emitted,           \* the events emitted by the step just taken, in order
    last,              \* the event handled by the step just taken
    hist,              \* per sos_id: how often each thing happened to it
    manual,            \* the invocations whose session its owner resolved by hand
    hooked,            \* the calls of the step just taken to the emergency
                       \* mail and to the nearby places, in order
    updates,           \* how many location_update events changed the tracker
    PATHWAY_STREAMING_HOOKS,  \* app.py could import path_pipeline
    EVENT_BUFFER,      \* path_pipeline._EVENT_BUFFER, oldest event first
    added,             \* every event add_tourist_event has appended, in order
    COMPLAINTS,        \* cid -> complaint
    response           \* the HTTP response of the step just taken, if any

vars == << now, connected, ONLINE_USERS, USER_LOCATIONS, ACTIVE_SOS_ROOMS,
           SOS_RECORDS, rooms, tasks, emitted, last, hist, manual, hooked,
           updates, PATHWAY_STREAMING_HOOKS, EVENT_BUFFER, added, COMPLAINTS,
           response >>

\* The state of path_pipeline.py and of the complaint desk of app.py.
pipeline == << PATHWAY_STREAMING_HOOKS, EVENT_BUFFER, added >>
complaints == << COMPLAINTS, response >>

\* The four stores of app.py.
stores == << ONLINE_USERS, USER_LOCATIONS, ACTIVE_SOS_ROOMS, SOS_RECORDS >>

\* ------------------------------------------------------------- bookkeeping

\* Rooms: the shared channel, the private room of a sid, the room of an SOS.
Realtime == [name |-> "realtime"]
RoomOfSid(sid) == [sid |-> sid]
RoomOfSos(sos_id) == [sos |-> sos_id]

NoHist == [task |-> 0, started |-> 0, resolved |-> 0, final |-> 0, ends |-> 0]
HistOf(h, x) == IF x \in DOMAIN h THEN h[x] ELSE NoHist
Bump(h, x, f) == DictSet(h, x, [HistOf(h, x) EXCEPT ![f] = @ + 1])

Event(op, sid, task) == [op |-> op, sid |-> sid, task |-> task]
Emit(ev, room, payload) == [event |-> ev, room |-> room, payload |-> payload]

Init ==
    /\ now = 0
    /\ connected = SIDS
    /\ ONLINE_USERS = EmptyDict
    /\ USER_LOCATIONS = EmptyDict
    /\ ACTIVE_SOS_ROOMS = EmptyDict
    /\ SOS_RECORDS = EmptyDict
    /\ rooms = {}
    /\ tasks = << >>
    /\ emitted = << >>
    /\ last = Event("connect", << >>, 0)
    /\ hist = EmptyDict
    /\ manual = {}
    /\ hooked = << >>
    /\ updates = 0
    \* The SOS handlers never read the event buffer, and a failure of the
    \* streaming hook is caught inside location_update: the stores behave the
    \* same with and without path_pipeline, and here it is not hooked.
    /\ PATHWAY_STREAMING_HOOKS = FALSE
    /\ EVENT_BUFFER = << >>
    /\ added = << >>
    /\ COMPLAINTS = EmptyDict
    /\ response = PyNone

\* --------------------------------------------------------------- fan-out

\* socketio.emit("presence", {"users": users}, room="realtime"): one entry
\* per registered sid, with its name, email and tracked location.
emit_presence(users, locations) ==
    Emit("presence", Realtime,
         [users |-> { [sid |-> sid,
                       name |-> DictGet(users[sid], "name"),
                       email |-> DictGet(users[sid], "email"),
                       location |-> DictGet(locations, sid)] : sid \in DOMAIN users }])

\* socketio.emit("locations_update", data, room="realtime"): one entry per
\* tracked sid that is registered, with its name and its sample (the list is
\* kept as the set of its entries).
emit_locations(users, locations) ==
    Emit("locations_update", Realtime,
         { [sid |-> sid,
            name |-> DictGet(users[sid], "name"),
            lat |-> locations[sid].lat,
            lng |-> locations[sid].lng,
            ts |-> locations[sid].ts,
            accuracy |-> DictGet(locations[sid], "accuracy")] :
           sid \in DOMAIN locations \cap DOMAIN users })

\* ---------------------------------------------------------------- handlers

\* join_room(room) that does not enter the room.
join_room_skipped(members, room, sid) == members

\* join_room(room): the connection of the handler enters the room.
join_room(members, room, sid) == members \cup { <<room, sid>> }

\* on_join with ONLINE_USERS.setdefault(sid, {...}): the first profile of a
\* connection stays.
on_join_keeps_profile(sid, user) ==
    /\ sid \in connected
    /\ ONLINE_USERS' =
        IF sid \in DOMAIN ONLINE_USERS THEN ONLINE_USERS
        ELSE DictSet(ONLINE_USERS, sid,
          [id    |-> Or(DictGet(user, "id"),
                        Fmt("u_", Slice(sid, ANON_SID_CHARS))),
           name  |-> Or(DictGet(user, "name"),
                        Or(DictGet(user, "email"), Str("Anonymous"))),
           email |-> DictGet(user, "email")])
    /\ rooms' = IF sid \in DOMAIN ACTIVE_SOS_ROOMS
                THEN join_room(join_room(rooms, Realtime, sid),
                               RoomOfSos(ACTIVE_SOS_ROOMS[sid]), sid)
                ELSE join_room(rooms, Realtime, sid)
    /\ emitted' = << emit_presence(ONLINE_USERS', USER_LOCATIONS) >>
    /\ last' = Event("join", sid, 0)
    /\ hooked' = << >>
    /\ UNCHANGED << updates, now, connected, USER_LOCATIONS, ACTIVE_SOS_ROOMS,
                    SOS_RECORDS, tasks, hist, manual >>
    /\ UNCHANGED << pipeline, complaints >>

\* @socketio.on("join")
on_join(sid, user) ==
    /\ sid \in connected
    /\ ONLINE_USERS' = DictSet(ONLINE_USERS, sid,
          [id    |-> Or(DictGet(user, "id"),
                        Fmt("u_", Slice(sid, ANON_SID_CHARS))),
           name  |-> Or(DictGet(user, "name"),
                        Or(DictGet(user, "email"), Str("Anonymous"))),
           email |-> DictGet(user, "email")])
    /\ rooms' = IF sid \in DOMAIN ACTIVE_SOS_ROOMS
                THEN join_room(join_room(rooms, Realtime, sid),
                               RoomOfSos(ACTIVE_SOS_ROOMS[sid]), sid)
                ELSE join_room(rooms, Realtime, sid)
    /\ emitted' = << emit_presence(ONLINE_USERS', USER_LOCATIONS) >>
    /\ last' = Event("join", sid, 0)
    /\ hooked' = << >>
    /\ UNCHANGED << updates, now, connected, USER_LOCATIONS, ACTIVE_SOS_ROOMS,
                    SOS_RECORDS, tasks, hist, manual >>
    /\ UNCHANGED << pipeline, complaints >>

\* The sample location_update builds from its payload (loc_data), or PyNone
\* when float() / int() raises on one of the fields.
loc_data(lat, lng, ts, accuracy) ==
    IF /\ IsNumeric(lat) /\ IsNumeric(lng) /\ IsNumeric(ts)
       /\ (accuracy = PyNone \/ IsNumeric(accuracy))
    THEN [lat |-> lat, lng |-> lng, ts |-> ts, accuracy |-> accuracy]
    ELSE PyNone

\* SOS_RECORDS[sos_id].get("location_log", []).append(loc_data)
AppendLog(records, sos_id, sample) ==
    [records EXCEPT ![sos_id] =
        [@ EXCEPT !["location_log"] = Append(@, sample)]]

\* The event add_tourist_event builds from its arguments: str(user_id or ""),
\* float(lat or 0.0), float(lng or 0.0), int(ts) with the clock for a ts of
\* None, float(aqi) unless aqi is None.
tourist_event(user_id, lat, lng, aqi, ts) ==
    [user_id |-> Or(user_id, Str("")),
     lat |-> Or(lat, Num(0)),
     lng |-> Or(lng, Num(0)),
     ts |-> IF ts = PyNone THEN Num(now) ELSE ts,
     aqi |-> aqi]

\* float() or int() raises on one of the arguments: nothing is appended.
add_tourist_event_raises(user_id, lat, lng, aqi, ts) ==
    LET event == tourist_event(user_id, lat, lng, aqi, ts)
    IN  \/ ~IsNumeric(event.lat)
        \/ ~IsNumeric(event.lng)
        \/ ~IsNumeric(event.ts)
        \/ ~(event.aqi = PyNone \/ IsNumeric(event.aqi))

\* while len(_EVENT_BUFFER) > MAX_EVENTS: _EVENT_BUFFER.pop(), dropping the
\* newest events.
pop_while_over(buffer) ==
    IF Len(buffer) > MAX_EVENTS THEN SubSeq(buffer, 1, MAX_EVENTS) ELSE buffer

\* while len(_EVENT_BUFFER) > MAX_EVENTS: _EVENT_BUFFER.popleft()
RECURSIVE popleft_while_over(_)
popleft_while_over(buffer) ==
    IF Len(buffer) > MAX_EVENTS THEN popleft_while_over(Tail(buffer)) ELSE buffer

\* add_tourist_event with pop() in place of popleft().
add_tourist_event_pop(buffer, user_id, lat, lng, aqi, ts) ==
    pop_while_over(Append(buffer, tourist_event(user_id, lat, lng, aqi, ts)))

\* add_tourist_event(user_id, lat, lng, aqi, ts): the buffer after the call.
add_tourist_event(buffer, user_id, lat, lng, aqi, ts) ==
    popleft_while_over(Append(buffer, tourist_event(user_id, lat, lng, aqi, ts)))

\* A call of add_tourist_event from any caller.
add_tourist_event_call(user_id, lat, lng, aqi, ts) ==
    /\ Len(added) < MaxAdds
    /\ IF add_tourist_event_raises(user_id, lat, lng, aqi, ts)
       THEN UNCHANGED << EVENT_BUFFER, added >>
       ELSE /\ EVENT_BUFFER' =
                  add_tourist_event(EVENT_BUFFER, user_id, lat, lng, aqi, ts)
            /\ added' = Append(added, tourist_event(user_id, lat, lng, aqi, ts))
    /\ last' = Event("add_tourist_event", << >>, 0)
    /\ emitted' = << >>
    /\ hooked' = << >>
    /\ UNCHANGED << now, connected, ONLINE_USERS, USER_LOCATIONS,
                    ACTIVE_SOS_ROOMS, SOS_RECORDS, rooms, tasks, hist, manual,
                    updates, PATHWAY_STREAMING_HOOKS, complaints >>

\* @socketio.on("location_update")
location_update(sid, data) ==
    LET lat == DictGet(data, "lat")
        lng == DictGet(data, "lng")
        ts  == Or(DictGet(data, "ts"), Num(now))
        accuracy == DictGet(data, "accuracy")
        loc == loc_data(lat, lng, ts, accuracy)
        active == sid \in DOMAIN ACTIVE_SOS_ROOMS
        sos_id == ACTIVE_SOS_ROOMS[sid]
        logged == active /\ sos_id \in DOMAIN SOS_RECORDS
        user_id == Or(DictGet(DictGetD(ONLINE_USERS, sid, EmptyDict), "id"),
                      Fmt("u_", Slice(sid, ANON_SID_CHARS)))
    IN
    /\ sid \in connected
    /\ last' = Event("location_update", sid, 0)
    /\ IF lat = PyNone \/ lng = PyNone
       THEN /\ USER_LOCATIONS' = DictPop(USER_LOCATIONS, sid)
            /\ emitted' = << emit_locations(ONLINE_USERS, USER_LOCATIONS') >>
            /\ UNCHANGED << SOS_RECORDS, updates, EVENT_BUFFER, added >>
       ELSE IF loc = PyNone
       THEN \* except Exception: return
            /\ emitted' = << >>
            /\ UNCHANGED << USER_LOCATIONS, SOS_RECORDS, updates, EVENT_BUFFER,
                            added >>
       ELSE /\ logged => Len(SOS_RECORDS[sos_id]["location_log"]) < MaxLog
            /\ updates < MaxUpdates
            /\ updates' = updates + 1
            /\ USER_LOCATIONS' = DictSet(USER_LOCATIONS, sid, loc)
            /\ SOS_RECORDS' = IF logged THEN AppendLog(SOS_RECORDS, sos_id, loc)
                              ELSE SOS_RECORDS
            /\ IF PATHWAY_STREAMING_HOOKS
               THEN /\ EVENT_BUFFER' =
                          add_tourist_event(EVENT_BUFFER, user_id, loc.lat,
                                            loc.lng, PyNone, loc.ts)
                    /\ added' = Append(added,
                          tourist_event(user_id, loc.lat, loc.lng, PyNone, loc.ts))
               ELSE UNCHANGED << EVENT_BUFFER, added >>
            /\ emitted' =
                 << [event |-> "sos_location",
                     room |-> IF active THEN RoomOfSos(sos_id) ELSE RoomOfSid(sid),
                     payload |-> loc, skip_sid |-> sid],
                    emit_locations(ONLINE_USERS, USER_LOCATIONS') >>
    /\ hooked' = << >>
    /\ UNCHANGED << now, connected, ONLINE_USERS, ACTIVE_SOS_ROOMS, rooms,
                    tasks, hist, manual >>
    /\ UNCHANGED << PATHWAY_STREAMING_HOOKS, complaints >>

\* on_disconnect sending the presence list before it removes the connection.
on_disconnect_presence_first(sid) ==
    /\ sid \in connected
    /\ connected' = connected \ {sid}
    /\ ONLINE_USERS' = DictPop(ONLINE_USERS, sid)
    /\ USER_LOCATIONS' = DictPop(USER_LOCATIONS, sid)
    /\ rooms' = { m \in rooms : m[2] # sid }
    /\ emitted' = << emit_presence(ONLINE_USERS, USER_LOCATIONS) >>
    /\ last' = Event("disconnect", sid, 0)
    /\ hooked' = << >>
    /\ UNCHANGED << updates, now, ACTIVE_SOS_ROOMS, SOS_RECORDS, tasks, hist, manual >>
    /\ UNCHANGED << pipeline, complaints >>

\* @socketio.on("disconnect"); the transport also takes the sid out of every
\* room when its connection closes.
on_disconnect(sid) ==
    /\ sid \in connected
    /\ connected' = connected \ {sid}
    /\ ONLINE_USERS' = DictPop(ONLINE_USERS, sid)
    /\ USER_LOCATIONS' = DictPop(USER_LOCATIONS, sid)
    /\ rooms' = { m \in rooms : m[2] # sid }
    /\ emitted' = << emit_presence(ONLINE_USERS', USER_LOCATIONS') >>
    /\ last' = Event("disconnect", sid, 0)
    /\ hooked' = << >>
    /\ UNCHANGED << updates, now, ACTIVE_SOS_ROOMS, SOS_RECORDS, tasks, hist, manual >>
    /\ UNCHANGED << pipeline, complaints >>

\* The sos_id of a trigger: f"sos_{int(time.time())}_{sid[:4]}", kept as the
\* pair of its two variable parts (the text is one-to-one with the pair).
NewSosId(t, sid) == << t, Slice(sid, SOS_SID_CHARS) >>

\* user_data = ONLINE_USERS.get(sid), with a made-up user for a sid the
\* registry does not know.
user_data_or_anonymous(sid) ==
    DictGetD(ONLINE_USERS, sid,
             [id |-> Fmt("u_", Slice(sid, ANON_SID_CHARS)),
              name |-> Str("Anonymous"), email |-> PyNone])

\* user_data = ONLINE_USERS.get(sid)
user_data(sid) == DictGet(ONLINE_USERS, sid)

\* @socketio.on("sos_alert"), up to the emergency mail: look the user up,
\* make the sos_id, record the mapping, join the room, store the record.
handle_sos_alert(sid, data) ==
    LET sos_id == NewSosId(now, sid)
        initial_location == IF sid \in DOMAIN USER_LOCATIONS
                            THEN USER_LOCATIONS[sid] ELSE data
        record == [id |-> sos_id,
                   user_sid |-> sid,
                   user_name |-> DictGet(user_data(sid), "name"),
                   start_ts |-> DictGetD(initial_location, "ts", Num(now)),
                   status |-> "ACTIVE",
                   location_log |-> << initial_location >>,
                   audit_record |-> PyNone]
    IN
    /\ sid \in connected
    /\ Len(tasks) < MaxTriggers
    /\ now + AUTO_RESOLVE_DELAY <= Horizon
    /\ last' = Event("sos_alert", sid, 0)
    /\ emitted' = << >>
    /\ IF ~Truthy(user_data(sid))
       THEN \* if not user_data: return
            UNCHANGED << ACTIVE_SOS_ROOMS, SOS_RECORDS, rooms, tasks, hist >>
       ELSE /\ ACTIVE_SOS_ROOMS' = DictSet(ACTIVE_SOS_ROOMS, sid, sos_id)
            /\ rooms' = join_room(rooms, RoomOfSos(sos_id), sid)
            /\ SOS_RECORDS' = DictSet(SOS_RECORDS, sos_id, record)
            /\ tasks' = Append(tasks,
                  [sid |-> sid, sos_id |-> sos_id, pc |-> "hook",
                   t0 |-> now, wake |-> 0, hooks |-> 0,
                   lat |-> DictGet(initial_location, "lat"),
                   lng |-> DictGet(initial_location, "lng")])
            /\ hist' = DictSet(hist, sos_id,
                  [HistOf(hist, sos_id) EXCEPT !.task = Len(tasks) + 1])
    /\ hooked' = << >>
    /\ UNCHANGED << updates, now, connected, ONLINE_USERS, USER_LOCATIONS, manual >>
    /\ UNCHANGED << pipeline, complaints >>

\* get_nearby_emergency_places_mock(lat, lng) adds offsets to lat and lng
\* outside any try: it raises TypeError unless both are numbers.
get_nearby_emergency_places_mock_raises(lat, lng) ==
    ~IsNumeric(lat) \/ ~IsNumeric(lng)

\* What send_emergency_email_to_relative does with the mail: it skips it
\* (SMTP not configured), sends it, or fails in the transmission, catches
\* the exception and logs it.  It returns in each case.
MailOutcomes == { "skipped", "sent", "failed" }

\* The return value of send_emergency_email_to_relative.
send_emergency_email_to_relative(outcome) == outcome = "sent"

\* A call to one of the two parts of the emergency dispatch, made by the
\* handler invocation `task` when it had emitted `before` events.
Call(fn, task, before, result) ==
    [fn |-> fn, task |-> task, before |-> before, result |-> result]

\* round((end_ts - start_ts) / 60, 2) without the division: whole seconds.
duration_seconds(end_ts, start_ts) == end_ts - start_ts

\* round((end_ts - start_ts) / 60, 2), in hundredths of a minute.
duration_minutes(end_ts, start_ts) == (10 * (end_ts - start_ts) + 3) \div 6

\* prev.get('lat', 0), prev.get('lng', 0): a coordinate of a log entry, in
\* degrees.
coordinate(sample, key) == DictGetD(sample, key, Num(0)).num

\* The haversine distance with the latitudes added instead of subtracted.
haversine_sign_slip(prev, curr) ==
    LET dlat == coordinate(curr, "lat") + coordinate(prev, "lat")
        dlng == coordinate(curr, "lng") - coordinate(prev, "lng")
    IN  dlat * dlat + dlng * dlng

\* The haversine distance of two log entries.  sin, cos and asin are outside
\* integer arithmetic: the distance is kept as dlat^2 + dlng^2, which is 0
\* exactly when the code's `a` is 0.0 (sin(0) = 0, sqrt(0) = 0, asin(0) = 0
\* hold exactly in floating point) and positive when dlat or dlng is not 0,
\* for coordinates less than a quarter turn apart.
haversine(prev, curr) ==
    LET dlat == coordinate(curr, "lat") - coordinate(prev, "lat")
        dlng == coordinate(curr, "lng") - coordinate(prev, "lng")
    IN  dlat * dlat + dlng * dlng

\* carbon_factor = 150
carbon_factor == 150

\* total_distance of calculate_emergency_carbon_footprint: the distances of
\* the neighbouring entries location_log[i-1], location_log[i], summed.
RECURSIVE total_distance(_, _)
total_distance(location_log, i) ==
    IF i > Len(location_log) THEN 0
    ELSE haversine(location_log[i - 1], location_log[i])
            + total_distance(location_log, i + 1)

\* calculate_emergency_carbon_footprint(sos_record)
calculate_emergency_carbon_footprint(sos_record) ==
    IF "location_log" \notin DOMAIN sos_record \/ sos_record.location_log = << >>
    THEN 0
    ELSE IF Len(sos_record.location_log) < 2
    THEN 0
    ELSE total_distance(sos_record.location_log, 2) * carbon_factor

\* The two events of a resolution, the final one first.
resolution_events_final_first(sos_id, record) ==
    << Emit("sos_resolved_final", RoomOfSid(record.user_sid),
            [sos_id |-> sos_id,
             carbon_footprint_g |-> calculate_emergency_carbon_footprint(record),
             duration_minutes |->
                 duration_minutes(record.end_ts.num, record.start_ts.num),
             location_updates |-> Len(record.location_log)]),
       Emit("sos_resolved", RoomOfSos(sos_id), [sos_id |-> sos_id]) >>

\* The two events handle_sos_resolve_internal emits for the record it has
\* just set to RESOLVED: sos_resolved to room=sos_id, then sos_resolved_final
\* with the metrics to room=record["user_sid"].
resolution_events(sos_id, record) ==
    << Emit("sos_resolved", RoomOfSos(sos_id), [sos_id |-> sos_id]),
       Emit("sos_resolved_final", RoomOfSid(record.user_sid),
            [sos_id |-> sos_id,
             carbon_footprint_g |-> calculate_emergency_carbon_footprint(record),
             duration_minutes |->
                 duration_minutes(record.end_ts.num, record.start_ts.num),
             location_updates |-> Len(record.location_log)]) >>

\* handle_sos_resolve_internal deleting the record once its two messages are
\* out, instead of keeping it as RESOLVED.
handle_sos_resolve_internal_forgets(sid, sos_id) ==
    IF sos_id \notin DOMAIN SOS_RECORDS
    THEN /\ emitted' = << >>
         /\ UNCHANGED << SOS_RECORDS, ACTIVE_SOS_ROOMS, hist >>
    ELSE LET record == DictSet([SOS_RECORDS[sos_id] EXCEPT !.status = "RESOLVED"],
                               "end_ts", Num(now))
         IN
         /\ SOS_RECORDS' = DictPop(SOS_RECORDS, sos_id)
         /\ ACTIVE_SOS_ROOMS' = DictPop(ACTIVE_SOS_ROOMS, sid)
         /\ emitted' = resolution_events(sos_id, record)
         /\ hist' = Bump(Bump(Bump(hist, sos_id, "resolved"), sos_id, "final"),
                         sos_id, "ends")

\* handle_sos_resolve_internal(sid, sos_id)
handle_sos_resolve_internal(sid, sos_id) ==
    IF sos_id \notin DOMAIN SOS_RECORDS
    THEN \* if not record: return
         /\ emitted' = << >>
         /\ UNCHANGED << SOS_RECORDS, ACTIVE_SOS_ROOMS, hist >>
    ELSE LET record == DictSet([SOS_RECORDS[sos_id] EXCEPT !.status = "RESOLVED"],
                               "end_ts", Num(now))
         IN
         /\ SOS_RECORDS' = [SOS_RECORDS EXCEPT ![sos_id] = record]
         /\ ACTIVE_SOS_ROOMS' = DictPop(ACTIVE_SOS_ROOMS, sid)
         /\ emitted' = resolution_events(sos_id, record)
         /\ hist' = Bump(Bump(Bump(hist, sos_id, "resolved"), sos_id, "final"),
                         sos_id, "ends")

\* handle_sos_alert from the emergency mail on, with the acknowledgment sent
\* before the mail and the nearby places instead of after them.
handle_sos_alert_dispatch_ack_first(i) ==
    LET task == tasks[i] IN
    /\ i \in DOMAIN tasks
    /\ task.pc = "hook"
    /\ last' = Event("sos_alert_dispatch", task.sid, i)
    /\ \E mail \in MailOutcomes :
          IF get_nearby_emergency_places_mock_raises(task.lat, task.lng)
          THEN /\ tasks' = [tasks EXCEPT ![i].pc = "raised", ![i].hooks = @ + 1]
               /\ emitted' = << Emit("sos_started", RoomOfSid(task.sid),
                                     [sos_id |-> task.sos_id]) >>
               /\ hooked' =
                    << Call("send_emergency_email_to_relative", i, 1,
                            send_emergency_email_to_relative(mail)),
                       Call("get_nearby_emergency_places_mock", i, 1, "TypeError") >>
               /\ hist' = Bump(hist, task.sos_id, "started")
          ELSE /\ tasks' = [tasks EXCEPT ![i].pc = "sleep",
                                         ![i].wake = now + AUTO_RESOLVE_DELAY,
                                         ![i].hooks = @ + 1]
               /\ emitted' = << Emit("sos_started", RoomOfSid(task.sid),
                                     [sos_id |-> task.sos_id]) >>
               /\ hooked' =
                    << Call("send_emergency_email_to_relative", i, 1,
                            send_emergency_email_to_relative(mail)),
                       Call("get_nearby_emergency_places_mock", i, 1, "places") >>
               /\ hist' = Bump(hist, task.sos_id, "started")
    /\ UNCHANGED << updates, now, connected, ONLINE_USERS, USER_LOCATIONS,
                    ACTIVE_SOS_ROOMS, SOS_RECORDS, rooms, manual >>
    /\ UNCHANGED << pipeline, complaints >>

\* handle_sos_alert from the emergency mail to socketio.sleep(30): the mail,
\* the nearby places, the sos_started acknowledgment, then the sleep.  The
\* TypeError of the nearby places ends the handler.
handle_sos_alert_dispatch(i) ==
    LET task == tasks[i] IN
    /\ i \in DOMAIN tasks
    /\ task.pc = "hook"
    /\ last' = Event("sos_alert_dispatch", task.sid, i)
    /\ \E mail \in MailOutcomes :
          IF get_nearby_emergency_places_mock_raises(task.lat, task.lng)
          THEN /\ tasks' = [tasks EXCEPT ![i].pc = "raised", ![i].hooks = @ + 1]
               /\ emitted' = << >>
               /\ hooked' =
                    << Call("send_emergency_email_to_relative", i, 0,
                            send_emergency_email_to_relative(mail)),
                       Call("get_nearby_emergency_places_mock", i, 0, "TypeError") >>
               /\ UNCHANGED hist
          ELSE /\ tasks' = [tasks EXCEPT ![i].pc = "sleep",
                                         ![i].wake = now + AUTO_RESOLVE_DELAY,
                                         ![i].hooks = @ + 1]
               /\ emitted' = << Emit("sos_started", RoomOfSid(task.sid),
                                     [sos_id |-> task.sos_id]) >>
               /\ hooked' =
                    << Call("send_emergency_email_to_relative", i, 0,
                            send_emergency_email_to_relative(mail)),
                       Call("get_nearby_emergency_places_mock", i, 0, "places") >>
               /\ hist' = Bump(hist, task.sos_id, "started")
    /\ UNCHANGED << updates, now, connected, ONLINE_USERS, USER_LOCATIONS,
                    ACTIVE_SOS_ROOMS, SOS_RECORDS, rooms, manual >>
    /\ UNCHANGED << pipeline, complaints >>

\* handle_sos_alert after socketio.sleep(30):
\* if ACTIVE_SOS_ROOMS.get(sid) == sos_id: handle_sos_resolve_internal(sid, sos_id)
handle_sos_alert_wake(i) ==
    LET task == tasks[i] IN
    /\ i \in DOMAIN tasks
    /\ task.pc = "sleep"
    /\ now >= task.wake
    /\ last' = Event("sos_alert_wake", task.sid, i)
    /\ tasks' = [tasks EXCEPT ![i].pc = "done"]
    /\ IF task.sid \in DOMAIN ACTIVE_SOS_ROOMS
          /\ ACTIVE_SOS_ROOMS[task.sid] = task.sos_id
       THEN handle_sos_resolve_internal(task.sid, task.sos_id)
       ELSE /\ emitted' = << >>
            /\ UNCHANGED << SOS_RECORDS, ACTIVE_SOS_ROOMS, hist >>
    /\ hooked' = << >>
    /\ UNCHANGED << updates, now, connected, ONLINE_USERS, USER_LOCATIONS, rooms, manual >>
    /\ UNCHANGED << pipeline, complaints >>

\* handle_sos_resolve with the error broadcast to the shared room instead of
\* sent to the caller.
handle_sos_resolve_broadcasts(sid) ==
    /\ sid \in connected
    /\ last' = Event("sos_resolve", sid, 0)
    /\ IF sid \notin DOMAIN ACTIVE_SOS_ROOMS
       THEN /\ emitted' = << Emit("sos_error", Realtime, PyNone) >>
            /\ UNCHANGED << SOS_RECORDS, ACTIVE_SOS_ROOMS, hist, manual >>
       ELSE LET sos_id == ACTIVE_SOS_ROOMS[sid]
                owner == HistOf(hist, sos_id).task
            IN
            /\ handle_sos_resolve_internal(sid, sos_id)
            /\ manual' = IF /\ sos_id \in DOMAIN SOS_RECORDS
                            /\ SOS_RECORDS[sos_id].status = "ACTIVE"
                            /\ tasks[owner].sid = sid
                         THEN manual \cup {owner} ELSE manual
    /\ hooked' = << >>
    /\ UNCHANGED << updates, now, connected, ONLINE_USERS, USER_LOCATIONS, rooms, tasks >>
    /\ UNCHANGED << pipeline, complaints >>

\* handle_sos_resolve on a server whose worker is held by a sleeping
\* sos_alert handler: the event waits for the sleep to end.
handle_sos_resolve_after_sleep(sid) ==
    /\ \A i \in DOMAIN tasks : tasks[i].pc # "sleep"
    /\ sid \in connected
    /\ last' = Event("sos_resolve", sid, 0)
    /\ IF sid \notin DOMAIN ACTIVE_SOS_ROOMS
       THEN /\ emitted' = << Emit("sos_error", RoomOfSid(sid), PyNone) >>
            /\ UNCHANGED << SOS_RECORDS, ACTIVE_SOS_ROOMS, hist, manual >>
       ELSE LET sos_id == ACTIVE_SOS_ROOMS[sid]
                owner == HistOf(hist, sos_id).task
            IN
            /\ handle_sos_resolve_internal(sid, sos_id)
            /\ manual' = IF /\ sos_id \in DOMAIN SOS_RECORDS
                            /\ SOS_RECORDS[sos_id].status = "ACTIVE"
                            /\ tasks[owner].sid = sid
                         THEN manual \cup {owner} ELSE manual
    /\ hooked' = << >>
    /\ UNCHANGED << updates, now, connected, ONLINE_USERS, USER_LOCATIONS, rooms, tasks >>
    /\ UNCHANGED << pipeline, complaints >>

\* @socketio.on("sos_resolve")
handle_sos_resolve(sid) ==
    /\ sid \in connected
    /\ last' = Event("sos_resolve", sid, 0)
    /\ IF sid \notin DOMAIN ACTIVE_SOS_ROOMS
       THEN /\ emitted' = << Emit("sos_error", RoomOfSid(sid), PyNone) >>
            /\ UNCHANGED << SOS_RECORDS, ACTIVE_SOS_ROOMS, hist, manual >>
       ELSE LET sos_id == ACTIVE_SOS_ROOMS[sid]
                owner == HistOf(hist, sos_id).task
            IN
            /\ handle_sos_resolve_internal(sid, sos_id)
            /\ manual' = IF /\ sos_id \in DOMAIN SOS_RECORDS
                            /\ SOS_RECORDS[sos_id].status = "ACTIVE"
                            /\ tasks[owner].sid = sid
                         THEN manual \cup {owner} ELSE manual
    /\ hooked' = << >>
    /\ UNCHANGED << updates, now, connected, ONLINE_USERS, USER_LOCATIONS, rooms, tasks >>
    /\ UNCHANGED << pipeline, complaints >>

\* The form fields report_issue requires.
RequiredFields ==
    { "name", "email", "country", "type", "description", "target_org" }

\* cid = f"cmp_{int(time.time())}", kept as its variable part.
NewCid(t) == << "cmp", t >>

\* @app.route("/api/report_issue", methods=["POST"]): report_issue with the submitted
\* form; sent tells whether send_email came back without an exception.
report_issue(form, sent) ==
    /\ last' = Event("report_issue", << >>, 0)
    /\ IF \E f \in RequiredFields : ~Truthy(DictGet(form, f))
       THEN \* Missing required fields.
            /\ response' = [status |-> 400, ok |-> FALSE]
            /\ UNCHANGED COMPLAINTS
       ELSE IF ~sent
       THEN \* Email sending failed.
            /\ response' = [status |-> 500, ok |-> FALSE]
            /\ UNCHANGED COMPLAINTS
       ELSE LET cid == NewCid(now) IN
            /\ COMPLAINTS' = DictSet(COMPLAINTS, cid,
                  [id |-> cid,
                   fields |-> DictSet(form, "created_at", Num(now)),
                   created_at |-> Num(now)])
            /\ response' = [status |-> 200, ok |-> TRUE, redirect |-> cid]
    /\ emitted' = << >>
    /\ hooked' = << >>
    /\ UNCHANGED << now, connected, ONLINE_USERS, USER_LOCATIONS,
                    ACTIVE_SOS_ROOMS, SOS_RECORDS, rooms, tasks, hist, manual,
                    updates, pipeline >>

\* The wall clock moves on to the next instant.  The horizon leaves every
\* handler that is still before its sleep the time to wake.
Tick ==
    /\ \E t \in Instants :
          /\ t > now
          /\ \A u \in Instants : u > now => t <= u
          /\ \A i \in DOMAIN tasks :
                tasks[i].pc = "hook" => t + AUTO_RESOLVE_DELAY <= Horizon
          /\ now' = t
    /\ emitted' = << >>
    /\ last' = Event("tick", << >>, 0)
    /\ hooked' = << >>
    /\ UNCHANGED << connected, ONLINE_USERS, USER_LOCATIONS, ACTIVE_SOS_ROOMS,
                    SOS_RECORDS, rooms, tasks, hist, manual, updates >>
    /\ UNCHANGED << pipeline, complaints >>

\* ---------------------------------------------------------- specifications

\* No sos_alert handler is inside the emergency mail.
NoHook == \A i \in DOMAIN tasks : tasks[i].pc # "hook"

\* send_emergency_email_to_relative returns at once with no SMTP password
\* set (the default) and blocks the whole server while it talks to the mail
\* host otherwise, so a sos_alert handler runs undisturbed from the arrival
\* of its event to its sleep: no other step is taken in between.
Join == NoHook /\ \E sid \in SIDS, user \in JoinUsers : on_join(sid, user)
SosAlert == NoHook /\ \E sid \in SIDS, data \in AlertPayloads : handle_sos_alert(sid, data)
SosAlertDispatch == \E i \in DOMAIN tasks : handle_sos_alert_dispatch(i)
SosAlertWake == NoHook /\ \E i \in DOMAIN tasks : handle_sos_alert_wake(i)
SosResolve == NoHook /\ \E sid \in SIDS : handle_sos_resolve(sid)
Disconnect == NoHook /\ \E sid \in SIDS : on_disconnect(sid)
Clock == NoHook /\ Tick

Next ==
    \/ Join
    \/ SosAlert
    \/ SosAlertDispatch
    \/ SosAlertWake
    \/ SosResolve
    \/ Disconnect
    \/ Clock

Spec == Init /\ [][Next]_vars

\* The state after every connection has joined with the same profile.
InitLoc ==
    /\ now = 0
    /\ connected = SIDS
    /\ ONLINE_USERS =
          [sid \in SIDS |->
              [id |-> Str("u1"), name |-> Str("Asha"),
               email |-> Str("asha@example.org")]]
    /\ USER_LOCATIONS = EmptyDict
    /\ ACTIVE_SOS_ROOMS = EmptyDict
    /\ SOS_RECORDS = EmptyDict
    /\ rooms = { <<Realtime, sid>> : sid \in SIDS }
    /\ tasks = << >>
    /\ emitted = << >>
    /\ last = Event("connect", << >>, 0)
    /\ hist = EmptyDict
    /\ manual = {}
    /\ hooked = << >>
    /\ updates = 0
    /\ PATHWAY_STREAMING_HOOKS = FALSE
    /\ EVENT_BUFFER = << >>
    /\ added = << >>
    /\ COMPLAINTS = EmptyDict
    /\ response = PyNone

\* A connection raises its first alert.
SosAlertOnce ==
    NoHook /\ \E sid \in SIDS, data \in AlertPayloads :
        /\ \A i \in DOMAIN tasks : tasks[i].sid # sid
        /\ handle_sos_alert(sid, data)

\* The wall clock moves on by the delay of the auto-resolve.
Delay ==
    /\ NoHook
    /\ now + AUTO_RESOLVE_DELAY \in Instants
    /\ now' = now + AUTO_RESOLVE_DELAY
    /\ emitted' = << >>
    /\ last' = Event("tick", << >>, 0)
    /\ hooked' = << >>
    /\ UNCHANGED << connected, ONLINE_USERS, USER_LOCATIONS, ACTIVE_SOS_ROOMS,
                    SOS_RECORDS, rooms, tasks, hist, manual, updates >>
    /\ UNCHANGED << pipeline, complaints >>

LocationUpdate ==
    NoHook /\ \E sid \in SIDS, data \in LocationPayloads : location_update(sid, data)

\* The joined connections send their locations, raise one alert each and
\* resolve it, within one second and again one delay later.
NextLoc ==
    \/ LocationUpdate
    \/ SosAlertOnce
    \/ SosAlertDispatch
    \/ SosAlertWake
    \/ SosResolve
    \/ Disconnect
    \/ Delay

SpecLoc == InitLoc /\ [][NextLoc]_vars

\* With the SMTP password set, send_emergency_email_to_relative talks to the
\* mail host.  On a threaded server, or one whose sockets are made
\* cooperative, the other handlers run while a sos_alert handler waits there,
\* each event in a task of its own: no handler is held back.
JoinDuringMail == \E sid \in SIDS, user \in JoinUsers : on_join(sid, user)
SosAlertDuringMail ==
    \E sid \in SIDS, data \in AlertPayloads : handle_sos_alert(sid, data)
SosAlertWakeDuringMail == \E i \in DOMAIN tasks : handle_sos_alert_wake(i)
SosResolveDuringMail == \E sid \in SIDS : handle_sos_resolve(sid)
DisconnectDuringMail == \E sid \in SIDS : on_disconnect(sid)

NextHook ==
    \/ JoinDuringMail
    \/ SosAlertDuringMail
    \/ SosAlertDispatch
    \/ SosAlertWakeDuringMail
    \/ SosResolveDuringMail
    \/ DisconnectDuringMail
    \/ Tick

SpecHook == Init /\ [][NextHook]_vars

\* data.get("user") or {} of the join events of clients with a full profile,
\* another profile, no profile at all, and a profile of an e-mail address only.
JoinPayloads ==
    JoinUsers \cup
    { [id |-> Str("u2"), name |-> Str("Ravi"), email |-> Str("ravi@example.org")],
      EmptyDict,
      [email |-> Str("guest@example.org")] }

JoinAs == NoHook /\ \E sid \in SIDS, user \in JoinPayloads : on_join(sid, user)

\* Connections join and join again under changing profiles, while they report
\* positions and raise alerts, all within one second.
\* A connection reports a position.
TrackLocation ==
    NoHook /\ \E sid \in SIDS : location_update(sid, [lat |-> Num(1), lng |-> Num(7)])

NextJoin ==
    \/ JoinAs
    \/ TrackLocation
    \/ SosAlertOnce
    \/ SosAlertDispatch

SpecJoin == Init /\ [][NextJoin]_vars

\* The arguments of the calls of add_tourist_event: (user_id, lat, lng, aqi, ts).
TouristEvents ==
    { << Str("u1"), Num(1), Num(7), PyNone, Num(5) >>,
      << Str("u2"), Num(2), Num(7), Num(40), PyNone >>,
      << PyNone, PyNone, Num(7), PyNone, Num(0) >>,
      << Str("u1"), Str("north"), Num(7), PyNone, Num(5) >> }

\* The state after start-up with path_pipeline imported.
InitEvents ==
    /\ now = 0
    /\ connected = SIDS
    /\ ONLINE_USERS = EmptyDict
    /\ USER_LOCATIONS = EmptyDict
    /\ ACTIVE_SOS_ROOMS = EmptyDict
    /\ SOS_RECORDS = EmptyDict
    /\ rooms = {}
    /\ tasks = << >>
    /\ emitted = << >>
    /\ last = Event("connect", << >>, 0)
    /\ hist = EmptyDict
    /\ manual = {}
    /\ hooked = << >>
    /\ updates = 0
    /\ PATHWAY_STREAMING_HOOKS = TRUE
    /\ EVENT_BUFFER = << >>
    /\ added = << >>
    /\ COMPLAINTS = EmptyDict
    /\ response = PyNone

AddTouristEvent ==
    \E e \in TouristEvents : add_tourist_event_call(e[1], e[2], e[3], e[4], e[5])

\* Tourist events arrive, from location updates of the connections and from
\* other callers of the pipeline.
NextEvents ==
    \/ AddTouristEvent
    \/ TrackLocation

SpecEvents == InitEvents /\ [][NextEvents]_vars

\* request.form of the complaints: two complete forms and one without its
\* description.
ComplaintForms ==
    { [name |-> Str("Asha"), country |-> Str("IN"), email |-> Str("asha@example.org"),
       phone |-> PyNone, type |-> Str("taxi"), target_org |-> Str("police"),
       description |-> Str("overcharged")],
      [name |-> Str("Ravi"), country |-> Str("IN"), email |-> Str("ravi@example.org"),
       phone |-> Str("100"), type |-> Str("hotel"), target_org |-> Str("tourism"),
       description |-> Str("no room")],
      [name |-> Str("Asha"), country |-> Str("IN"), email |-> Str("asha@example.org"),
       phone |-> PyNone, type |-> Str("taxi"), target_org |-> Str("police"),
       description |-> Str("")] }

ReportIssue ==
    \E form \in ComplaintForms, sent \in BOOLEAN : report_issue(form, sent)

\* Complaints are filed while the clock runs.
NextComplaints ==
    \/ ReportIssue
    \/ Tick

SpecComplaints == Init /\ [][NextComplaints]_vars

\* Time passes and every handler that can continue does.
Fairness ==
    /\ WF_vars(Tick)
    /\ \A i \in 1..MaxTriggers :
          /\ WF_vars(handle_sos_alert_dispatch(i))
          /\ WF_vars(handle_sos_alert_wake(i))

FairSpec == Init /\ [][Next]_vars /\ Fairness

\* ------------------------------------------------------------------ claims

\* Every sos_id a trigger of the model can make.
SosIds == { NewSosId(t, sid) : t \in Instants, sid \in SIDS }

IsActive(x) == x \in DOMAIN SOS_RECORDS /\ SOS_RECORDS[x].status = "ACTIVE"
IsResolved(x) == x \in DOMAIN SOS_RECORDS /\ SOS_RECORDS[x].status = "RESOLVED"

\* The ACTIVE records a connection owns.
ActiveOf(sid) == { x \in DOMAIN SOS_RECORDS : IsActive(x) /\ SOS_RECORDS[x].user_sid = sid }

\* The step just taken was the sos_alert handler of a registered user reaching
\* its sleep (the trigger is complete).
Triggered(i) ==
    /\ last.op = "sos_alert_dispatch"
    /\ last.task = i
    /\ tasks[i].pc = "sleep"

\* C1: every connection owns at most one SOS record with status ACTIVE, and
\* right after a trigger it owns exactly one.
C1_OneActivePerConnection ==
    /\ \A sid \in SIDS : Cardinality(ActiveOf(sid)) <= 1
    /\ \A i \in DOMAIN tasks :
          Triggered(i) => Cardinality(ActiveOf(tasks[i].sid)) = 1

\* C2: triggers of distinct connections within the same second get distinct
\* sos_ids.
C2_DistinctSosIds ==
    \A i, j \in DOMAIN tasks :
        (i # j /\ tasks[i].sid # tasks[j].sid /\ tasks[i].t0 = tasks[j].t0)
            => tasks[i].sos_id # tasks[j].sos_id

\* C3: the sos_id a trigger generates is not a key of SOS_RECORDS at that
\* moment, so the trigger overwrites no record.
C3_FreshSosId ==
    [][ Len(tasks') > Len(tasks)
            => tasks'[Len(tasks')].sos_id \notin DOMAIN SOS_RECORDS ]_vars

\* C4: every ACTIVE record whose trigger has scheduled its auto-resolve (the
\* handler sleeps) is eventually RESOLVED.
C4_ActiveEventuallyResolved ==
    \A i \in 1..MaxTriggers :
        (i \in DOMAIN tasks /\ tasks[i].pc = "sleep" /\ IsActive(tasks[i].sos_id))
            ~> (i \in DOMAIN tasks /\ IsResolved(tasks[i].sos_id))

\* C5: for every sos_id, sos_resolved_final is emitted at most once and
\* end_ts is assigned at most once.
C5_ResolvedOnce ==
    \A x \in DOMAIN hist : hist[x].final <= 1 /\ hist[x].ends <= 1

\* C6: once a record is RESOLVED, no step changes its status or its end_ts.
C6_ResolvedIsTerminal ==
    [][ \A x \in DOMAIN SOS_RECORDS :
            SOS_RECORDS[x].status = "RESOLVED"
                => /\ x \in DOMAIN SOS_RECORDS'
                   /\ SOS_RECORDS'[x].status = "RESOLVED"
                   /\ SOS_RECORDS'[x].end_ts = SOS_RECORDS[x].end_ts ]_vars

\* C7: a sos_resolve of a connection that has no mapping emits sos_error to
\* that connection's own room and nothing else, and changes none of the four
\* stores.
C7_ResolveWithoutMapping ==
    [][ (last'.op = "sos_resolve" /\ last'.sid \notin DOMAIN ACTIVE_SOS_ROOMS)
            => /\ emitted' = << Emit("sos_error", RoomOfSid(last'.sid), PyNone) >>
               /\ UNCHANGED stores ]_vars

\* C7 witness: a connection whose session was resolved before (by hand or by
\* the timer) sends sos_resolve while another user is online, and gets the
\* error.
C7_Witness ==
    /\ last.op = "sos_resolve"
    /\ emitted = << Emit("sos_error", RoomOfSid(last.sid), PyNone) >>
    /\ \E x \in DOMAIN SOS_RECORDS :
          IsResolved(x) /\ SOS_RECORDS[x].user_sid = last.sid
    /\ \E other \in DOMAIN ONLINE_USERS : other # last.sid

\* C8: the auto-resolve of a session its owner resolved by hand is a no-op
\* when it wakes: no record, no mapping changes and nothing is emitted.
C8_StaleTimerIsNoOp ==
    [][ \A i \in DOMAIN tasks :
            (tasks[i].pc = "sleep" /\ tasks'[i].pc = "done" /\ i \in manual)
                => /\ UNCHANGED << SOS_RECORDS, ACTIVE_SOS_ROOMS >>
                   /\ emitted' = << >> ]_vars

\* C9: the ACTIVE record of a connection that has disconnected is eventually
\* RESOLVED with end_ts set and the connection's mapping removed.
C9_ResolvedAfterDisconnect ==
    \A sid \in SIDS, x \in SosIds :
        (sid \notin connected /\ IsActive(x) /\ SOS_RECORDS[x].user_sid = sid)
            ~> (/\ IsResolved(x)
                /\ "end_ts" \in DOMAIN SOS_RECORDS[x]
                /\ sid \notin DOMAIN ACTIVE_SOS_ROOMS)

\* C10: no handler leaves partial state.  A sos_alert handler that ends by an
\* exception has added neither mapping nor record; one that reaches its sleep
\* has the mapping, the ACTIVE record and the sos_started acknowledgment; a
\* resolve changes nothing, or sets RESOLVED and end_ts and removes the mapping.
C10_NoPartialState ==
    [][ /\ \A i \in DOMAIN tasks :
              LET sid == tasks[i].sid
                  x == tasks[i].sos_id
                  mapped == sid \in DOMAIN ACTIVE_SOS_ROOMS' /\ ACTIVE_SOS_ROOMS'[sid] = x
                  stored == x \in DOMAIN SOS_RECORDS' /\ SOS_RECORDS'[x].user_sid = sid
              IN  /\ (tasks[i].pc = "hook" /\ tasks'[i].pc = "raised")
                        => ~mapped /\ ~stored
                  /\ (tasks[i].pc = "hook" /\ tasks'[i].pc = "sleep")
                        => /\ mapped /\ stored
                           /\ SOS_RECORDS'[x].status = "ACTIVE"
                           /\ emitted' = << Emit("sos_started", RoomOfSid(sid),
                                                 [sos_id |-> x]) >>
        /\ last'.op \in {"sos_resolve", "sos_alert_wake"}
              => \/ UNCHANGED << SOS_RECORDS, ACTIVE_SOS_ROOMS >>
                 \/ \E x \in DOMAIN SOS_RECORDS :
                       /\ SOS_RECORDS'[x].status = "RESOLVED"
                       /\ "end_ts" \in DOMAIN SOS_RECORDS'[x]
                       /\ last'.sid \notin DOMAIN ACTIVE_SOS_ROOMS'
                       /\ \A y \in DOMAIN SOS_RECORDS \ {x} :
                             SOS_RECORDS'[y] = SOS_RECORDS[y] ]_vars

\* The acknowledgment of the trigger of handler invocation i.
SosStarted(i) ==
    Emit("sos_started", RoomOfSid(tasks[i].sid), [sos_id |-> tasks[i].sos_id])

\* C11: whatever happens in the emergency dispatch (the mail fails, the
\* nearby places fail), the handler goes on: the session stays stored as
\* ACTIVE and mapped, sos_started is sent and the auto-resolve is scheduled.
C11_HookFailureKeepsSession ==
    [][ \A i \in DOMAIN tasks :
            (tasks[i].pc = "hook" /\ tasks'[i].pc # "hook")
                => /\ IsActive(tasks[i].sos_id)'
                   /\ tasks[i].sid \in DOMAIN ACTIVE_SOS_ROOMS'
                   /\ ACTIVE_SOS_ROOMS'[tasks[i].sid] = tasks[i].sos_id
                   /\ emitted' = << SosStarted(i) >>
                   /\ tasks'[i].pc = "sleep" ]_vars

\* C12: a trigger with an empty payload of a registered connection without a
\* tracked location stores an ACTIVE record with start_ts = now and a log of
\* one entry, is acknowledged with sos_started and has its auto-resolve
\* scheduled.
C12_EmptyPayloadTrigger ==
    [][ \A i \in DOMAIN tasks' :
            LET x == tasks'[i].sos_id
                empty == /\ x \in DOMAIN SOS_RECORDS'
                         /\ SOS_RECORDS'[x].location_log = << EmptyDict >>
            IN  /\ (i \notin DOMAIN tasks /\ empty)
                      => /\ SOS_RECORDS'[x].status = "ACTIVE"
                         /\ SOS_RECORDS'[x].start_ts = Num(now)
                         /\ Len(SOS_RECORDS'[x].location_log) = 1
                /\ (i \in DOMAIN tasks /\ empty
                        /\ tasks[i].pc = "hook" /\ tasks'[i].pc # "hook")
                      => /\ emitted' = << SosStarted(i) >>
                         /\ tasks'[i].pc = "sleep"
                         /\ tasks'[i].wake = now + AUTO_RESOLVE_DELAY ]_vars

\* C13: a sos_alert of a connection the registry does not know changes no
\* store and no room, starts no handler continuation (no sos_id, no
\* auto-resolve), calls no emergency dispatch and emits nothing.
C13_UnregisteredTriggerIsNoOp ==
    [][ (last'.op = "sos_alert" /\ last'.sid \notin DOMAIN ONLINE_USERS)
            => /\ UNCHANGED << stores, rooms, tasks, hist >>
               /\ emitted' = << >>
               /\ hooked' = << >> ]_vars

\* C13 witness: a connection that never joined has sent sos_alert while
\* another connection has a session open; it has no mapping.
C13_Witness ==
    /\ last.op = "sos_alert"
    /\ last.sid \in connected
    /\ last.sid \notin DOMAIN ONLINE_USERS
    /\ last.sid \notin DOMAIN ACTIVE_SOS_ROOMS
    /\ \E other \in DOMAIN ACTIVE_SOS_ROOMS : IsActive(ACTIVE_SOS_ROOMS[other])

\* The connection is mapped to the sos_id.
MappedTo(sid, x) == sid \in DOMAIN ACTIVE_SOS_ROOMS /\ ACTIVE_SOS_ROOMS[sid] = x

\* The location_log of a record.
LogOf(records, x) == records[x].location_log

\* The record's log starts with a sample of the tracker (alert payloads carry
\* no accuracy).
FromTracker(x) == "accuracy" \in DOMAIN LogOf(SOS_RECORDS, x)[1]

\* C14: a trigger of a connection with a tracked location stores start_ts =
\* the ts of that sample and a log of that one sample; from then on, while
\* the record is ACTIVE, its log changes only by a valid location_update of a
\* connection mapped to it, which appends its sample (so after k updates the
\* log has the 1 + k samples in arrival order).
C14_LogGrowsByUpdates ==
    [][ /\ \A i \in DOMAIN tasks' \ DOMAIN tasks :
              LET sid == tasks'[i].sid
                  x == tasks'[i].sos_id
              IN  sid \in DOMAIN USER_LOCATIONS
                    => /\ SOS_RECORDS'[x].start_ts = USER_LOCATIONS[sid].ts
                       /\ LogOf(SOS_RECORDS', x) = << USER_LOCATIONS[sid] >>
        /\ \A x \in DOMAIN SOS_RECORDS :
              (IsActive(x) /\ FromTracker(x))
                => \/ LogOf(SOS_RECORDS', x) = LogOf(SOS_RECORDS, x)
                   \/ /\ last'.op = "location_update"
                      /\ MappedTo(last'.sid, x)
                      /\ LogOf(SOS_RECORDS', x) =
                            Append(LogOf(SOS_RECORDS, x), USER_LOCATIONS'[last'.sid])
        /\ (last'.op = "location_update" /\ updates' # updates)
              => \A x \in DOMAIN SOS_RECORDS :
                    (IsActive(x) /\ FromTracker(x) /\ MappedTo(last'.sid, x))
                        => LogOf(SOS_RECORDS', x) =
                              Append(LogOf(SOS_RECORDS, x), USER_LOCATIONS'[last'.sid])
      ]_vars

\* The sos_resolved_final events of the step just taken for sos_id x.
FinalsOf(x) ==
    { k \in DOMAIN emitted :
        emitted[k].event = "sos_resolved_final" /\ emitted[k].payload.sos_id = x }

C16_LogOnlyOfActiveSession ==
    [][ last'.op = "location_update"
            => LET sid == last'.sid
                   x == ACTIVE_SOS_ROOMS[sid]
               IN  IF sid \in DOMAIN ACTIVE_SOS_ROOMS /\ IsActive(x)
                   THEN /\ updates' # updates
                            => LogOf(SOS_RECORDS', x) =
                                  Append(LogOf(SOS_RECORDS, x), USER_LOCATIONS'[sid])
                        /\ \A y \in DOMAIN SOS_RECORDS \ {x} :
                              LogOf(SOS_RECORDS', y) = LogOf(SOS_RECORDS, y)
                   ELSE \A y \in DOMAIN SOS_RECORDS :
                              LogOf(SOS_RECORDS', y) = LogOf(SOS_RECORDS, y)
      ]_vars

\* A payload with a lat, lng, ts or accuracy that is there and is no number.
NotNumeric(data) ==
    \E key \in {"lat", "lng", "ts", "accuracy"} :
        key \in DOMAIN data /\ ~IsNumeric(data[key])

\* C17: a location_update with a field that is there and is no number is
\* dropped: the tracker and every log stay as they are and nothing is emitted.
C17_MalformedUpdateDropped ==
    [][ \A sid \in SIDS, data \in LocationPayloads :
            (NotNumeric(data) /\ location_update(sid, data))
                => /\ UNCHANGED << USER_LOCATIONS, SOS_RECORDS >>
                   /\ emitted' = << >> ]_vars

\* Two log entries with the same coordinates.
SameCoordinates(prev, curr) ==
    /\ IsNumeric(DictGet(prev, "lat")) /\ IsNumeric(DictGet(prev, "lng"))
    /\ DictGet(prev, "lat") = DictGet(curr, "lat")
    /\ DictGet(prev, "lng") = DictGet(curr, "lng")

\* C18: the footprint a resolution reports is 0 when the record's log has at
\* most one entry, and 0 when it has two entries with the same coordinates;
\* it is 0 for a record with an empty log.
C18_FootprintZero ==
    /\ calculate_emergency_carbon_footprint([location_log |-> << >>]) = 0
    /\ \A k \in DOMAIN emitted :
          emitted[k].event = "sos_resolved_final"
            => LET log == LogOf(SOS_RECORDS, emitted[k].payload.sos_id)
                   footprint == emitted[k].payload.carbon_footprint_g
               IN  /\ Len(log) <= 1 => footprint = 0
                   /\ (Len(log) = 2 /\ SameCoordinates(log[1], log[2]))
                         => footprint = 0

\* C18 witness: a session with two samples at the same place has just been
\* resolved, and one with two samples at different places before it.
C18_Witness ==
    \E k \in DOMAIN emitted :
        /\ emitted[k].event = "sos_resolved_final"
        /\ emitted[k].payload.carbon_footprint_g = 0
        /\ LET log == LogOf(SOS_RECORDS, emitted[k].payload.sos_id)
           IN  Len(log) = 2 /\ SameCoordinates(log[1], log[2])

\* C19: the emergency dispatch (the mail, then the nearby places) is called
\* by the sos_alert handler of a registered connection only, once per
\* trigger, and before that handler emits anything: sos_started for the
\* trigger's sos_id follows both calls and goes to the triggering connection.
C19_HookOnceBeforeAck ==
    [][ /\ hooked' # << >>
            => /\ last'.op = "sos_alert_dispatch"
               /\ Len(hooked') = 2
               /\ hooked'[1].fn = "send_emergency_email_to_relative"
               /\ hooked'[2].fn = "get_nearby_emergency_places_mock"
               /\ \A c \in DOMAIN hooked' :
                     /\ hooked'[c].task = last'.task
                     /\ tasks[hooked'[c].task].pc = "hook"
                     /\ tasks[hooked'[c].task].hooks = 0
        /\ \A i \in DOMAIN tasks' :
              tasks'[i].hooks = IF tasks'[i].pc = "hook" THEN 0 ELSE 1
        /\ \A k \in DOMAIN emitted' :
              emitted'[k].event = "sos_started"
                => /\ last'.op = "sos_alert_dispatch"
                   /\ emitted'[k] = SosStarted(last'.task)
                   /\ Len(hooked') = 2
                   /\ \A c \in DOMAIN hooked' : hooked'[c].before < k
      ]_vars

\* C19 witness: the second trigger of a behaviour has just been acknowledged
\* after a mail that was not sent; both triggers called the dispatch once.
C19_Witness ==
    /\ last.op = "sos_alert_dispatch"
    /\ Len(tasks) = 2
    /\ emitted = << SosStarted(2) >>
    /\ hooked # << >> /\ hooked[1].result = FALSE
    /\ tasks[1].hooks = 1 /\ tasks[2].hooks = 1

\* C20: the trigger makes the owner a member of the room of its sos_id before
\* it emits anything; sos_started goes to the room of the triggering
\* connection alone; and whenever an event goes to the room of an sos_id, the
\* record's owner is a member of it, or has left it by disconnecting.
C20_OwnerJoinedBeforeBroadcast ==
    [][ /\ \A i \in DOMAIN tasks' \ DOMAIN tasks :
              /\ << RoomOfSos(tasks'[i].sos_id), tasks'[i].sid >> \in rooms'
              /\ emitted' = << >>
        /\ \A k \in DOMAIN emitted' :
              LET e == emitted'[k] IN
              /\ e.event = "sos_started"
                    => /\ last'.op = "sos_alert_dispatch"
                       /\ e.room = RoomOfSid(last'.sid)
                       /\ << RoomOfSos(e.payload.sos_id), last'.sid >> \in rooms'
              /\ DOMAIN e.room = {"sos"}
                    => /\ e.room.sos \in DOMAIN SOS_RECORDS'
                       /\ LET owner == SOS_RECORDS'[e.room.sos].user_sid
                          IN  << e.room, owner >> \in rooms' \/ owner \notin connected'
      ]_vars

\* C20 witness: a location sample has just gone to the room of an ACTIVE
\* session whose owner and one more connection are members of it.
C20_Witness ==
    /\ last.op = "location_update"
    /\ emitted # << >>
    /\ DOMAIN emitted[1].room = {"sos"}
    /\ IsActive(emitted[1].room.sos)
    /\ << emitted[1].room, SOS_RECORDS[emitted[1].room.sos].user_sid >> \in rooms
    /\ Cardinality({ m \in rooms : m[1] = emitted[1].room }) = 2

\* The step just taken emitted an event of a resolution.
ResolutionEmitted ==
    \E k \in DOMAIN emitted :
        emitted[k].event \in {"sos_resolved", "sos_resolved_final"}

Sleeping(i) == tasks[i].pc = "sleep" /\ now < tasks[i].wake

\* C22: while a sos_alert handler sleeps before its auto-resolve, the server
\* takes the events of every open connection, the sleeping one's included:
\* its sos_resolve, its location_update (one that clears the location, and
\* one with a sample while the model's bounds leave room) and its join.
C22_SleepDoesNotBlock ==
    \A i \in DOMAIN tasks :
        (Sleeping(i) /\ NoHook)
            => \A sid \in connected :
                  /\ ENABLED handle_sos_resolve(sid)
                  /\ ENABLED location_update(sid, EmptyDict)
                  /\ (/\ updates < MaxUpdates
                      /\ \A x \in DOMAIN SOS_RECORDS : Len(LogOf(SOS_RECORDS, x)) < MaxLog)
                        => ENABLED location_update(sid, [lat |-> Num(1), lng |-> Num(7)])
                  /\ \A user \in JoinUsers : ENABLED on_join(sid, user)

\* C22 witness: a connection whose handler still sleeps has sent a location
\* and then sos_resolve, and its record is RESOLVED before the delay is over.
C22_Witness ==
    \E i \in DOMAIN tasks :
        /\ Sleeping(i)
        /\ last.op = "sos_resolve"
        /\ last.sid = tasks[i].sid
        /\ IsResolved(tasks[i].sos_id)
        /\ SOS_RECORDS[tasks[i].sos_id].end_ts.num < tasks[i].wake
        /\ Len(LogOf(SOS_RECORDS, tasks[i].sos_id)) = 2

\* C23: the events of one connection take effect in arrival order: when a
\* trigger or a resolve of a connection is applied, every earlier trigger of
\* that connection has been applied completely (its handler is past the
\* acknowledgment).
C23_ArrivalOrderPerConnection ==
    [][ last'.op \in {"sos_alert", "sos_resolve"}
            => \A i \in DOMAIN tasks :
                  tasks[i].sid = last'.sid => tasks[i].pc # "hook" ]_vars

\* C30: when sos_started is emitted for a sos_id, no sos_resolved and no
\* sos_resolved_final has been emitted for that sos_id before.
C30_StartedBeforeResolved ==
    [][ \A k \in DOMAIN emitted' :
            emitted'[k].event = "sos_started"
                => LET before == HistOf(hist, emitted'[k].payload.sos_id)
                   IN  before.resolved = 0 /\ before.final = 0 ]_vars

\* d and e agree on key k: both lack it, or both hold the same value.
SameEntry(d, e, k) ==
    /\ (k \in DOMAIN d) = (k \in DOMAIN e)
    /\ k \in DOMAIN d => e[k] = d[k]

\* C24: a step of connection A (one of its events, or its own sleeping
\* handler going on) leaves every other connection B alone: B's presence
\* entry, B's location, B's mapping and every record owned by B are as
\* before, and no sos_resolved_final of the step goes to B.
C24_ConnectionsIsolated ==
    [][ last'.op # "tick"
            => \A B \in SIDS \ {last'.sid} :
                  /\ SameEntry(ONLINE_USERS, ONLINE_USERS', B)
                  /\ SameEntry(USER_LOCATIONS, USER_LOCATIONS', B)
                  /\ SameEntry(ACTIVE_SOS_ROOMS, ACTIVE_SOS_ROOMS', B)
                  /\ \A x \in DOMAIN SOS_RECORDS :
                        SOS_RECORDS[x].user_sid = B
                            => SameEntry(SOS_RECORDS, SOS_RECORDS', x)
                  /\ \A k \in DOMAIN emitted' :
                        emitted'[k].event = "sos_resolved_final"
                            => emitted'[k].room # RoomOfSid(B) ]_vars

\* s is the beginning of t.
IsPrefix(s, t) == Len(s) <= Len(t) /\ SubSeq(t, 1, Len(s)) = s

\* C26: the location_log stored under a sos_id only grows at its end: after
\* every step the log before the step is the beginning of the log after it,
\* also when the step is another trigger.
C26_LogAppendOnly ==
    [][ \A x \in DOMAIN SOS_RECORDS :
            /\ x \in DOMAIN SOS_RECORDS'
            /\ IsPrefix(LogOf(SOS_RECORDS, x), LogOf(SOS_RECORDS', x)) ]_vars

\* C27: no step removes a sos_id from SOS_RECORDS.
C27_RecordsNeverRemoved ==
    [][ DOMAIN SOS_RECORDS \subseteq DOMAIN SOS_RECORDS' ]_vars

\* Two sessions are on record, one of them resolved, and the owner of the
\* resolved one has disconnected.
C27_Witness ==
    /\ Cardinality(DOMAIN SOS_RECORDS) = 2
    /\ last.op = "disconnect"
    /\ \E x \in DOMAIN SOS_RECORDS :
          IsResolved(x) /\ SOS_RECORDS[x].user_sid = last.sid

\* C29: every mapping sid -> sos_id points at a stored ACTIVE record owned by
\* that sid, and no two sids map to one sos_id.
C29_MappingConsistent ==
    /\ \A sid \in DOMAIN ACTIVE_SOS_ROOMS :
          /\ IsActive(ACTIVE_SOS_ROOMS[sid])
          /\ SOS_RECORDS[ACTIVE_SOS_ROOMS[sid]].user_sid = sid
    /\ \A s1, s2 \in DOMAIN ACTIVE_SOS_ROOMS :
          ACTIVE_SOS_ROOMS[s1] = ACTIVE_SOS_ROOMS[s2] => s1 = s2

\* C25: a connection that has disconnected has no entry in ONLINE_USERS and
\* no sample in USER_LOCATIONS, and its disconnect is followed by one
\* presence broadcast to the realtime room that lists exactly the connections
\* still registered, the disconnected one not among them.
C25_DisconnectCleansUp ==
    /\ \A sid \in SIDS \ connected :
          sid \notin DOMAIN ONLINE_USERS /\ sid \notin DOMAIN USER_LOCATIONS
    /\ last.op = "disconnect"
          => /\ Len(emitted) = 1
             /\ emitted[1].event = "presence"
             /\ emitted[1].room = Realtime
             /\ { u.sid : u \in emitted[1].payload.users } = DOMAIN ONLINE_USERS
             /\ \A u \in emitted[1].payload.users : u.sid # last.sid

\* A connection with a tracked location and a session started from it has
\* disconnected while the other one, also tracked, stays listed.
C25_Witness ==
    /\ last.op = "disconnect"
    /\ \E x \in DOMAIN SOS_RECORDS :
          SOS_RECORDS[x].user_sid = last.sid /\ FromTracker(x)
    /\ \E u \in emitted[1].payload.users : u.location # PyNone

\* The presence entry a join of sid with profile user has to store: the
\* profile's fields, the id defaulting to the placeholder made of the sid, the
\* name to the e-mail address and then to "Anonymous".
Placeholder(sid) == Fmt("u_", Slice(sid, ANON_SID_CHARS))
PresenceEntry(sid, user) ==
    [id    |-> IF "id" \in DOMAIN user THEN user.id ELSE Placeholder(sid),
     name  |-> IF "name" \in DOMAIN user THEN user.name
               ELSE IF "email" \in DOMAIN user THEN user.email
               ELSE Str("Anonymous"),
     email |-> IF "email" \in DOMAIN user THEN user.email ELSE PyNone]

\* C28: a join of sid with a profile stores exactly the entry of that profile
\* under sid, whatever was stored before (the same profile again changes
\* nothing, another profile replaces the entry, no profile gives the
\* placeholder u_<sid>), leaves the entries of the other sids alone and leaves
\* USER_LOCATIONS, ACTIVE_SOS_ROOMS and SOS_RECORDS unchanged.
C28_JoinIsIdempotentUpsert ==
    [][ \A sid \in SIDS, user \in JoinPayloads :
            on_join(sid, user)
                => /\ DOMAIN ONLINE_USERS' = DOMAIN ONLINE_USERS \cup {sid}
                   /\ ONLINE_USERS'[sid] = PresenceEntry(sid, user)
                   /\ \A B \in SIDS \ {sid} :
                         SameEntry(ONLINE_USERS, ONLINE_USERS', B)
                   /\ (sid \in DOMAIN ONLINE_USERS
                         /\ ONLINE_USERS[sid] = PresenceEntry(sid, user))
                         => ONLINE_USERS' = ONLINE_USERS
                   /\ UNCHANGED << USER_LOCATIONS, ACTIVE_SOS_ROOMS,
                                   SOS_RECORDS >> ]_vars

\* A connection with a location and an ACTIVE session has joined again without
\* a profile, after joining with one, next to a registered other connection.
C28_Witness ==
    /\ last.op = "join"
    /\ ONLINE_USERS[last.sid].id = Placeholder(last.sid)
    /\ last.sid \in DOMAIN USER_LOCATIONS
    /\ last.sid \in DOMAIN ACTIVE_SOS_ROOMS
    /\ IsActive(ACTIVE_SOS_ROOMS[last.sid])
    /\ SOS_RECORDS[ACTIVE_SOS_ROOMS[last.sid]].user_name = Str("Ravi")
    /\ \E B \in DOMAIN ONLINE_USERS : B # last.sid

\* C31: every RESOLVED record ends no earlier than it starts, whatever
\* timestamps the clients sent with their locations, so that the duration
\* reported for it is not negative.
C31_EndNotBeforeStart ==
    \A x \in DOMAIN SOS_RECORDS :
        IsResolved(x) => SOS_RECORDS[x].end_ts.num >= SOS_RECORDS[x].start_ts.num

\* C32: no location_update of any connection changes the location_log of a
\* record that is RESOLVED: the log keeps the length that its
\* sos_resolved_final reported.
C32_ResolvedLogFrozen ==
    [][ \A x \in DOMAIN SOS_RECORDS :
            (IsResolved(x) /\ last'.op = "location_update")
                => /\ IsResolved(x)'
                   /\ LogOf(SOS_RECORDS', x) = LogOf(SOS_RECORDS, x) ]_vars

\* What a locations_update broadcast has to carry: the tracked samples of the
\* registered connections, each with the name of its connection.
TrackedAndRegistered ==
    { [sid |-> sid,
       name |-> ONLINE_USERS[sid].name,
       lat |-> USER_LOCATIONS[sid].lat,
       lng |-> USER_LOCATIONS[sid].lng,
       ts |-> USER_LOCATIONS[sid].ts,
       accuracy |-> USER_LOCATIONS[sid].accuracy] :
      sid \in DOMAIN USER_LOCATIONS \cap DOMAIN ONLINE_USERS }

\* C33: the last locations_update broadcast is the current join of tracker
\* and registry: every step that changes this join (a location update, a
\* disconnect, a join) emits a locations_update carrying the new join, and no
\* locations_update carries anything else.
C33_LocationsBroadcastCurrent ==
    [][ /\ TrackedAndRegistered' # TrackedAndRegistered
            => \E k \in DOMAIN emitted' :
                  /\ emitted'[k].event = "locations_update"
                  /\ emitted'[k].payload = TrackedAndRegistered'
        /\ \A k \in DOMAIN emitted' :
              emitted'[k].event = "locations_update"
                  => /\ emitted'[k].room = Realtime
                     /\ emitted'[k].payload = TrackedAndRegistered' ]_vars

\* The last n elements of a sequence (all of it if it is shorter).
LastOf(seq, n) ==
    IF Len(seq) <= n THEN seq ELSE SubSeq(seq, Len(seq) - n + 1, Len(seq))

\* C34: the event buffer never holds more than MAX_EVENTS events, and it
\* holds the most recently added events, oldest first.
C34_BufferKeepsNewest ==
    /\ Len(EVENT_BUFFER) <= MAX_EVENTS
    /\ EVENT_BUFFER = LastOf(added, MAX_EVENTS)

\* More events were added than the buffer holds, the last ones all different,
\* one of them by a location update.
C34_Witness ==
    /\ Len(added) >= MAX_EVENTS + 2
    /\ Len(EVENT_BUFFER) = MAX_EVENTS
    /\ \A i, j \in DOMAIN EVENT_BUFFER : i # j => EVENT_BUFFER[i] # EVENT_BUFFER[j]
    /\ added[1] # added[2]
    /\ last.op = "location_update"

\* C35: a report_issue that answers ok stores its complaint under an id no
\* complaint had before, and leaves every complaint stored before as it was.
C35_ComplaintsKeptApart ==
    [][ (last'.op = "report_issue" /\ response'.ok)
            => /\ response'.redirect \notin DOMAIN COMPLAINTS
               /\ response'.redirect \in DOMAIN COMPLAINTS'
               /\ \A cid \in DOMAIN COMPLAINTS :
                     SameEntry(COMPLAINTS, COMPLAINTS', cid) ]_vars

====
